---- MODULE Spec2Model ----
(***************************************************************************)
(* Multi-output conditionals of gpflow/conditionals/mo_conditionals.py.    *)
(*                                                                         *)
(* One call of conditional(Xnew, feature, kernel, f, full_cov,             *)
(* full_output_cov, q_sqrt, white) is a run of the state machine: the      *)
(* dispatcher picks a registered _conditional by the runtime types of      *)
(* feature and kernel, and the chosen body builds Kmm/Kmn/Knn, reshapes    *)
(* them, calls a conditional helper and reassembles the result.            *)
(*                                                                         *)
(* Tensors are modelled with their shape and with every entry.  Entries    *)
(* of the tensors that the external collaborators produce (Kuu, Kuf, K,    *)
(* K_diag) and of the caller's f and q_sqrt are distinct symbols; an entry *)
(* of a helper's result is a formal sum (a bag) of terms, each term naming *)
(* the entries it was computed from.  Equal results are equal bags.        *)
(***************************************************************************)
EXTENDS Integers, Sequences, FiniteSets, Bags, TLC

\* Bounds of the model: N test points, M inducing points, P outputs, L latents.
MaxN == 2
MaxM == 2
MaxP == 2
MaxL == 2

VARIABLES
  default_jitter,  \* process-wide jitter setting, read by default_jitter()
  pc,              \* position of the call
  call,            \* the caller's arguments
  regime,          \* the implementation the dispatcher selected
  args,            \* arguments of the running _conditional body
  caller,          \* "mixed" while the batched body runs on behalf of regime 4.7
  elems,           \* the tuple (Kmms, Kmns, Knns, fs, q_sqrts) handed to tf.map_fn
  done,            \* slices of the batched map already evaluated
  rmu, rvar,       \* outputs of the batched map, one slot per slice
  fvar,            \* per-output variance before expand_independent_outputs
  ret,             \* (gmu, gvar) returned to regime 4.7 by the batched body
  result,          \* (mean, variance) returned to the caller
  error,           \* the exception that ended the call, "" if none
  helpers          \* bag of the conditional-helper invocations of this call

vars == <<default_jitter, pc, call, regime, args, caller, elems, done, rmu, rvar,
          fvar, ret, result, error, helpers>>

----------------------------------------------------------------------------
(* Tensors: [shape |-> <<d1, ..., dr>>, val |-> [index tuples -> entries]]  *)

RECURSIVE Idx(_)
Idx(shape) ==
  IF shape = <<>> THEN {<<>>}
  ELSE {<<i>> \o r : i \in 1..Head(shape), r \in Idx(Tail(shape))}

RECURSIVE Size(_)
Size(shape) == IF shape = <<>> THEN 1 ELSE Head(shape) * Size(Tail(shape))

NoTensor == [shape |-> <<>>, val |-> <<>>]

\* Row-major offset of an index tuple (0-based) and its inverse.
RECURSIVE Offset(_, _)
Offset(i, shape) ==
  IF shape = <<>> THEN 0
  ELSE (Head(i) - 1) * Size(Tail(shape)) + Offset(Tail(i), Tail(shape))

RECURSIVE Unravel(_, _)
Unravel(o, shape) ==
  IF shape = <<>> THEN <<>>
  ELSE <<(o \div Size(Tail(shape))) + 1>> \o Unravel(o % Size(Tail(shape)), Tail(shape))

\* tf.reshape: same entries in row-major order; defined when the sizes agree.
ReshapeOK(T, shape) == Size(T.shape) = Size(shape)
Reshape(T, shape) ==
  [shape |-> shape,
   val |-> [i \in Idx(shape) |-> T.val[Unravel(Offset(i, shape), T.shape)]]]

\* tf.transpose with a permutation: axis k of the result is axis perm[k] of T.
Permute(T, perm) ==
  LET r == Len(T.shape)
      shape == [k \in 1..r |-> T.shape[perm[k]]]
  IN [shape |-> shape,
      val |-> [i \in Idx(shape) |->
                 T.val[[j \in 1..r |-> i[CHOOSE k \in 1..r : perm[k] = j]]]]]

\* tf.transpose(T) of a matrix.
Transpose(T) == Permute(T, <<2, 1>>)

\* T[..., None, ...]: a new axis of size 1 at position axis.
ExpandDims(T, axis) ==
  LET shape == SubSeq(T.shape, 1, axis - 1) \o <<1>> \o SubSeq(T.shape, axis, Len(T.shape))
  IN [shape |-> shape,
      val |-> [i \in Idx(shape) |->
                 T.val[SubSeq(i, 1, axis - 1) \o SubSeq(i, axis + 1, Len(i))]]]

\* T[..., k, ...]: entry k (1-based) of one axis, that axis dropped.
Take(T, axis, k) ==
  LET shape == SubSeq(T.shape, 1, axis - 1) \o SubSeq(T.shape, axis + 1, Len(T.shape))
  IN [shape |-> shape,
      val |-> [i \in Idx(shape) |->
                 T.val[SubSeq(i, 1, axis - 1) \o <<k>> \o SubSeq(i, axis, Len(i))]]]

\* tf.stack(ts, axis=0) of equally shaped tensors.
Stack(ts) ==
  LET shape == <<Len(ts)>> \o ts[1].shape
  IN [shape |-> shape, val |-> [i \in Idx(shape) |-> ts[Head(i)].val[Tail(i)]]]

\* rollaxis_left(A, 1): the first axis becomes the last.
rollaxis_left(A) ==
  LET r == Len(A.shape)
  IN Permute(A, [k \in 1..r |-> IF k = r THEN 1 ELSE k + 1])

----------------------------------------------------------------------------
(* Runtime types of the feature and kernel handles, and the registrations  *)

FeatureTypes ==
  {"InducingPoints", "Mof", "SharedIndependentMof", "SeparateIndependentMof",
   "MixedKernelSharedMof", "MixedKernelSeparateMof"}

KernelTypes ==
  {"Kernel", "Mok", "SharedIndependentMok", "SeparateIndependentMok", "SeparateMixedMok"}

\* The classes a runtime type is an instance of (itself and its bases).
Supers(t) ==
  CASE t = "InducingPoints"         -> {"InducingPoints", "InducingFeature"}
    [] t = "Mof"                    -> {"Mof", "InducingFeature"}
    [] t = "SharedIndependentMof"   -> {"SharedIndependentMof", "Mof", "InducingFeature"}
    [] t = "SeparateIndependentMof" -> {"SeparateIndependentMof", "Mof", "InducingFeature"}
    [] t = "MixedKernelSharedMof"   ->
         {"MixedKernelSharedMof", "SharedIndependentMof", "Mof", "InducingFeature"}
    [] t = "MixedKernelSeparateMof" ->
         {"MixedKernelSeparateMof", "SeparateIndependentMof", "Mof", "InducingFeature"}
    [] t = "Kernel"                 -> {"Kernel"}
    [] t = "Mok"                    -> {"Mok", "Kernel"}
    [] t = "SharedIndependentMok"   -> {"SharedIndependentMok", "Mok", "Kernel"}
    [] t = "SeparateIndependentMok" ->
         {"SeparateIndependentMok", "Mok", "Combination", "Kernel"}
    [] t = "SeparateMixedMok"       -> {"SeparateMixedMok", "Mok", "Combination", "Kernel"}
    [] OTHER                        -> {t}

IsA(t, class) == class \in Supers(t)

Entry(f, k, impl) == [feature |-> f, kernel |-> k, impl |-> impl]

\* A registry that also holds a catch-all entry defaulting to the baseline.
RegistryWithDefault ==
  { Entry("SharedIndependentMof", "SharedIndependentMok", "shared"),
    Entry("SeparateIndependentMof", "SeparateIndependentMok", "batched"),
    Entry("SharedIndependentMof", "SeparateIndependentMok", "batched"),
    Entry("SeparateIndependentMof", "SharedIndependentMok", "batched"),
    Entry("SharedIndependentMof", "SeparateMixedMok", "interdomain"),
    Entry("SeparateIndependentMof", "SeparateMixedMok", "interdomain"),
    Entry("InducingPoints", "Mok", "correlated"),
    Entry("MixedKernelSharedMof", "SeparateMixedMok", "mixed"),
    Entry("MixedKernelSeparateMof", "SeparateMixedMok", "mixed"),
    Entry("InducingFeature", "Kernel", "shared") }

\* A registry from which the registration of the mixed-aware features is missing.
RegistryWithoutMixed ==
  { Entry("SharedIndependentMof", "SharedIndependentMok", "shared"),
    Entry("SeparateIndependentMof", "SeparateIndependentMok", "batched"),
    Entry("SharedIndependentMof", "SeparateIndependentMok", "batched"),
    Entry("SeparateIndependentMof", "SharedIndependentMok", "batched"),
    Entry("SharedIndependentMof", "SeparateMixedMok", "interdomain"),
    Entry("SeparateIndependentMof", "SeparateMixedMok", "interdomain"),
    Entry("InducingPoints", "Mok", "correlated") }

\* conditional_dispatch after the module is imported: one entry per decorator,
\* a Union annotation giving one entry per member.
Registry ==
  { Entry("SharedIndependentMof", "SharedIndependentMok", "shared"),
    Entry("SeparateIndependentMof", "SeparateIndependentMok", "batched"),
    Entry("SharedIndependentMof", "SeparateIndependentMok", "batched"),
    Entry("SeparateIndependentMof", "SharedIndependentMok", "batched"),
    Entry("SharedIndependentMof", "SeparateMixedMok", "interdomain"),
    Entry("SeparateIndependentMof", "SeparateMixedMok", "interdomain"),
    Entry("InducingPoints", "Mok", "correlated"),
    Entry("MixedKernelSharedMof", "SeparateMixedMok", "mixed"),
    Entry("MixedKernelSeparateMof", "SeparateMixedMok", "mixed") }

\* Entries whose declared types the runtime types are instances of.
Matching(ft, kt) == {e \in Registry : IsA(ft, e.feature) /\ IsA(kt, e.kernel)}

\* The matching entries that are at least as specific as every other match.
MostSpecific(ft, kt) ==
  {e \in Matching(ft, kt) :
     \A o \in Matching(ft, kt) : IsA(e.feature, o.feature) /\ IsA(e.kernel, o.kernel)}

\* The implementations the dispatcher can select for a type pair.
Resolve(ft, kt) == {e.impl : e \in MostSpecific(ft, kt)}

\* conditional_dispatch.registered_function(feature type, kernel type)
registered_function(ft, kt) == Resolve(ft, kt)

----------------------------------------------------------------------------
(* External collaborators: covariances.Kuu / Kuf and the kernel calls      *)

\* A tensor of distinct symbols: entry i is <<name, tag>> \o i.
Ext(name, tag, shape) ==
  [shape |-> shape, val |-> [i \in Idx(shape) |-> <<name, tag>> \o i]]

KuuShape(c) ==
  IF IsA(c.feature, "InducingPoints") THEN <<c.M, c.L, c.M, c.L>>
  ELSE IF IsA(c.kernel, "SeparateMixedMok") THEN <<c.L, c.M, c.M>>
  ELSE IF IsA(c.feature, "SharedIndependentMof") /\ IsA(c.kernel, "SharedIndependentMok")
       THEN <<c.M, c.M>>
  ELSE <<c.P, c.M, c.M>>

KufShape(c) ==
  IF IsA(c.feature, "InducingPoints") THEN <<c.M, c.L, c.N, c.P>>
  ELSE IF IsA(c.kernel, "SeparateMixedMok")
       THEN IF IsA(c.feature, "MixedKernelSharedMof") \/ IsA(c.feature, "MixedKernelSeparateMof")
            THEN <<c.L, c.M, c.N>>
            ELSE <<c.M, c.L, c.N, c.P>>
  ELSE IF IsA(c.feature, "SharedIndependentMof") /\ IsA(c.kernel, "SharedIndependentMok")
       THEN <<c.M, c.N>>
  ELSE <<c.P, c.M, c.N>>

\* covariances.Kuu(feature, kernel, jitter=...): every entry carries the jitter
\* that was added to the diagonal when it was built.
Kuu(c, jitter) == Ext("Kuu", jitter, KuuShape(c))

\* covariances.Kuf(feature, kernel, Xnew)
Kuf(c) == Ext("Kuf", 0, KufShape(c))

\* kernel(Xnew, full=..., full_output_cov=...): the joint multi-output form.
KernelCall(c, full, full_output_cov) ==
  Ext("Kff", 0,
      IF full /\ full_output_cov THEN <<c.N, c.P, c.N, c.P>>
      ELSE IF full THEN <<c.P, c.N, c.N>>
      ELSE IF full_output_cov THEN <<c.N, c.P, c.P>>
      ELSE <<c.N, c.P>>)

\* k.K(Xnew) and k.K_diag(Xnew) of constituent kernel number k.
K(c, k) == Ext("K", k, <<c.N, c.N>>)
K_diag(c, k) == Ext("K_diag", k, <<c.N>>)

\* The collaborators that produced the entries of a Kmm.
SourceOf(Kmm) == {Kmm.val[i][1] : i \in DOMAIN Kmm.val}

\* The jitter values found in a Kmm.
JitterOf(Kmm) == {Kmm.val[i][2] : i \in DOMAIN Kmm.val}

----------------------------------------------------------------------------
(* The caller's f and q_sqrt                                               *)

\* f in the column layout [M, L] or in the flattened layout [M*L, 1].
FShape(c) == IF c.flay = "cols" THEN <<c.M, c.L>> ELSE <<c.M * c.L, 1>>

\* q_sqrt: absent, standard deviations shaped like f, or one Cholesky factor
\* per column of f.
QShape(c) ==
  IF c.q = "diag" THEN FShape(c)
  ELSE IF c.flay = "cols" THEN <<c.L, c.M, c.M>>
  ELSE <<1, c.M * c.L, c.M * c.L>>

FTensor(c) == Ext("f", 0, FShape(c))
QTensor(c) == IF c.q = "None" THEN NoTensor ELSE Ext("q_sqrt", 0, QShape(c))

----------------------------------------------------------------------------
(* Conditional helpers of gpflow.conditionals.util                         *)

\* An operand of a term, named by its first and its last entry (row-major).
Ref(T) ==
  IF T = NoTensor THEN <<>>
  ELSE <<T.val[[k \in 1..Len(T.shape) |-> 1]], T.val[T.shape]>>

\* One term of a result entry: the operands it was computed from.
Term(kind, at, Kmm, Kmn, Knn, f, q, white) ==
  [kind |-> kind, at |-> at, Kmm |-> Kmm, Kmn |-> Kmn, Knn |-> Knn, f |-> f, q |-> q,
   white |-> white]

One(t) == SetToBag({t})

Rank(T) == Len(T.shape)

\* Column n of a matrix, as a vector.
Col(T, n) == Take(T, 2, n)

\* The part of q_sqrt that belongs to column r of f.
QCol(q_sqrt, r) ==
  IF q_sqrt = NoTensor THEN NoTensor
  ELSE IF Rank(q_sqrt) = 2 THEN Col(q_sqrt, r)
  ELSE Take(q_sqrt, 1, r)

\* The shapes base_conditional accepts: Kmn [M, N], Kmm [M, M], Knn [N] or [N, N],
\* f [M, R], q_sqrt None, [M, R] or [R, M, M].
base_conditional_ok(Kmn, Kmm, Knn, f, full_cov, q_sqrt) ==
  /\ Rank(Kmm) = 2 /\ Rank(Kmn) = 2 /\ Rank(f) = 2
  /\ Kmm.shape[1] = Kmm.shape[2]
  /\ Kmn.shape[1] = Kmm.shape[1]
  /\ f.shape[1] = Kmm.shape[1]
  /\ Knn.shape = (IF full_cov THEN <<Kmn.shape[2], Kmn.shape[2]>> ELSE <<Kmn.shape[2]>>)
  /\ \/ q_sqrt = NoTensor
     \/ q_sqrt.shape = f.shape
     \/ q_sqrt.shape = <<f.shape[2], Kmm.shape[1], Kmm.shape[1]>>

\* base_conditional: mean [N, R]; variance [N, R], or [R, N, N] under full_cov.
\* mean[n, r] is computed from Kmm, Kmn[:, n] and f[:, r]; the variance entry of
\* points n, n2 and column r from Kmm, Kmn[:, n], Kmn[:, n2], Knn[n(, n2)] and,
\* when q_sqrt is given, the part of q_sqrt of column r.
base_conditional(Kmn, Kmm, Knn, f, full_cov, q_sqrt, white) ==
  LET N == Kmn.shape[2]
      R == f.shape[2]
      mshape == <<N, R>>
      vshape == IF full_cov THEN <<R, N, N>> ELSE <<N, R>>
      V(r, n, n2) ==
        One(Term("var", <<>>, Ref(Kmm), Ref(Col(Kmn, n)) \o Ref(Col(Kmn, n2)),
                 <<Knn.val[IF full_cov THEN <<n, n2>> ELSE <<n>>]>>, <<>>,
                 Ref(QCol(q_sqrt, r)), white))
  IN [mean |-> [shape |-> mshape,
                val |-> [i \in Idx(mshape) |->
                           One(Term("mean", <<>>, Ref(Kmm), Ref(Col(Kmn, i[1])), <<>>,
                                    Ref(Col(f, i[2])), <<>>, white))]],
      var |-> [shape |-> vshape,
               val |-> [i \in Idx(vshape) |->
                          IF full_cov THEN V(i[1], i[2], i[3]) ELSE V(i[2], i[1], i[1])]]]

\* The variance layout of a multi-output result.
VarShape(N, P, full_cov, full_output_cov) ==
  IF full_cov /\ full_output_cov THEN <<N, P, N, P>>
  ELSE IF full_cov THEN <<P, N, N>>
  ELSE IF full_output_cov THEN <<N, P, P>>
  ELSE <<N, P>>

\* A result of a helper whose arithmetic is not modelled: every entry is one
\* term that names the helper, the entry's place and the operands.
Opaque(kind, N, P, Kmn, Kmm, Knn, f, full_cov, full_output_cov, q_sqrt, white) ==
  LET T(part, shape) ==
        [shape |-> shape,
         val |-> [i \in Idx(shape) |->
                    One(Term(kind, <<part>> \o i, Ref(Kmm), Ref(Kmn), Ref(Knn),
                             IF part = 1 THEN Ref(f) ELSE <<>>,
                             IF part = 1 THEN <<>> ELSE Ref(q_sqrt),
                             white))]]
  IN [mean |-> T(1, <<N, P>>), var |-> T(2, VarShape(N, P, full_cov, full_output_cov))]

\* independent_interdomain_conditional: Kmn [M, L, N, P], Kmm [L, M, M], Knn in the
\* layout of the flags, f [M, L], q_sqrt None, [M, L] or [L, M, M].
independent_interdomain_conditional_ok(Kmn, Kmm, Knn, f, full_cov, full_output_cov, q_sqrt) ==
  /\ Rank(Kmn) = 4 /\ Rank(Kmm) = 3 /\ Rank(f) = 2
  /\ Kmm.shape = <<Kmn.shape[2], Kmn.shape[1], Kmn.shape[1]>>
  /\ Knn.shape = VarShape(Kmn.shape[3], Kmn.shape[4], full_cov, full_output_cov)
  /\ f.shape = <<Kmn.shape[1], Kmn.shape[2]>>
  /\ \/ q_sqrt = NoTensor
     \/ q_sqrt.shape = f.shape
     \/ q_sqrt.shape = Kmm.shape

independent_interdomain_conditional(Kmn, Kmm, Knn, f, full_cov, full_output_cov, q_sqrt, white) ==
  Opaque("independent_interdomain_conditional", Kmn.shape[3], Kmn.shape[4],
         Kmn, Kmm, Knn, f, full_cov, full_output_cov, q_sqrt, white)

\* fully_correlated_conditional: Kmn [M*L, N, K], Kmm [M*L, M*L], Knn in the layout
\* of the flags, f [M*L, 1], q_sqrt None, [M*L, 1] or [1, M*L, M*L].
fully_correlated_conditional_ok(Kmn, Kmm, Knn, f, full_cov, full_output_cov, q_sqrt) ==
  /\ Rank(Kmn) = 3 /\ Rank(Kmm) = 2
  /\ Kmm.shape = <<Kmn.shape[1], Kmn.shape[1]>>
  /\ Knn.shape = VarShape(Kmn.shape[2], Kmn.shape[3], full_cov, full_output_cov)
  /\ f.shape = <<Kmn.shape[1], 1>>
  /\ \/ q_sqrt = NoTensor
     \/ q_sqrt.shape = f.shape
     \/ q_sqrt.shape = <<1, Kmn.shape[1], Kmn.shape[1]>>

fully_correlated_conditional(Kmn, Kmm, Knn, f, full_cov, full_output_cov, q_sqrt, white) ==
  Opaque("fully_correlated_conditional", Kmn.shape[2], Kmn.shape[3],
         Kmn, Kmm, Knn, f, full_cov, full_output_cov, q_sqrt, white)

\* expand_independent_outputs: [N, P] or [P, N, N] into the layout of the flags;
\* under full_output_cov the variance of each output sits on the output diagonal
\* and every other entry is zero (the empty sum).
expand_independent_outputs(v, full_cov, full_output_cov) ==
  IF ~full_output_cov THEN v
  ELSE IF full_cov
  THEN LET shape == <<v.shape[2], v.shape[1], v.shape[3], v.shape[1]>>
       IN [shape |-> shape,
           val |-> [i \in Idx(shape) |->
                      IF i[2] = i[4] THEN v.val[<<i[2], i[1], i[3]>>] ELSE EmptyBag]]
  ELSE LET shape == <<v.shape[1], v.shape[2], v.shape[2]>>
       IN [shape |-> shape,
           val |-> [i \in Idx(shape) |->
                      IF i[2] = i[3] THEN v.val[<<i[1], i[2]>>] ELSE EmptyBag]]

\* k times a formal sum.
Scale(k, B) == IF k = 0 THEN EmptyBag ELSE [t \in DOMAIN B |-> k * B[t]]

\* The sum of a sequence of formal sums.
RECURSIVE SumBags(_)
SumBags(bs) == IF bs = <<>> THEN EmptyBag ELSE Head(bs) (+) SumBags(Tail(bs))

\* mix_latent_gp(W, g_mu, g_var, full_cov, full_output_cov): W [P, L], g_mu [N, L],
\* g_var [N, L] or [L, N, N].  mean = g_mu W^T; the covariance of outputs p and q
\* is sum_l W[p, l] W[q, l] g_var[l].
mix_latent_gp_ok(W, g_mu, g_var, full_cov) ==
  /\ Rank(W) = 2 /\ Rank(g_mu) = 2
  /\ g_mu.shape[2] = W.shape[2]
  /\ g_var.shape = (IF full_cov THEN <<W.shape[2], g_mu.shape[1], g_mu.shape[1]>>
                    ELSE g_mu.shape)

mix_latent_gp(W, g_mu, g_var, full_cov, full_output_cov) ==
  LET N == g_mu.shape[1]
      P == W.shape[1]
      L == W.shape[2]
      mshape == <<N, P>>
      vshape == VarShape(N, P, full_cov, full_output_cov)
      G(l, n, n2) == g_var.val[IF full_cov THEN <<l, n, n2>> ELSE <<n, l>>]
      C(p, q, n, n2) ==
        SumBags([l \in 1..L |-> Scale(W.val[<<p, l>>] * W.val[<<q, l>>], G(l, n, n2))])
      M(n, p) ==
        SumBags([l \in 1..L |-> Scale(W.val[<<p, l>>], g_mu.val[<<n, l>>])])
  IN [mean |-> [shape |-> mshape, val |-> [i \in Idx(mshape) |-> M(i[1], i[2])]],
      var |-> [shape |-> vshape,
               val |-> [i \in Idx(vshape) |->
                          IF full_cov /\ full_output_cov THEN C(i[2], i[4], i[1], i[3])
                          ELSE IF full_cov THEN C(i[1], i[1], i[2], i[3])
                          ELSE IF full_output_cov THEN C(i[2], i[3], i[1], i[1])
                          ELSE C(i[2], i[2], i[1], i[1])]]]

----------------------------------------------------------------------------
(* The five _conditional bodies                                            *)

\* One invocation of a conditional helper: its name, the shapes it was handed,
\* and the collaborator that built its Kmm with the jitter it was given.
Invocation(name, Kmn, Kmm, Knn) ==
  [name |-> name, Kmn |-> Kmn.shape, Kmm |-> Kmm.shape, Knn |-> Knn.shape,
   source |-> SourceOf(Kmm), jitter |-> JitterOf(Kmm)]

Failed(err, calls) ==
  [ok |-> FALSE, err |-> err, calls |-> calls, mean |-> NoTensor, var |-> NoTensor,
   fvar |-> NoTensor]

Returned(mean, var, v, calls) ==
  [ok |-> TRUE, err |-> "", calls |-> calls, mean |-> mean, var |-> var, fvar |-> v]

\* Kuu called without its jitter argument, which then defaults to 0.
Kmms_batched_nojitter(c, jitter) == Kuu(c, 0)

\* The Kuu call of each body.
Kmm_shared(c, jitter) == Kuu(c, jitter)
Kmms_batched(c, jitter) == Kuu(c, jitter)
Kmm_interdomain(c, jitter) == Kuu(c, jitter)
Kmm_correlated(c, jitter) == Kuu(c, jitter)

\* (SharedIndependentMof, SharedIndependentMok): one base_conditional for all outputs.
conditional_shared(c, jitter) ==
  LET Kmm == Kmm_shared(c, jitter)
      Kmn == Kuf(c)
      Kff == KernelCall(c, c.full_cov, FALSE)
      Knn == IF c.full_cov THEN Take(Kff, 1, 1) ELSE Take(Kff, Rank(Kff), 1)
      f == FTensor(c)
      q_sqrt == QTensor(c)
      calls == One(Invocation("base_conditional", Kmn, Kmm, Knn))
      r == base_conditional(Kmn, Kmm, Knn, f, c.full_cov, q_sqrt, c.white)
  IN IF ~base_conditional_ok(Kmn, Kmm, Knn, f, c.full_cov, q_sqrt)
     THEN Failed("ShapeMismatchError", calls)
     ELSE Returned(r.mean,
                   expand_independent_outputs(r.var, c.full_cov, c.full_output_cov),
                   r.var, calls)

\* The constituent kernels of the batched body: kernel.kernels of a Combination,
\* else the one shared kernel repeated len(feature.features) times.
batched_kernels(c) ==
  IF IsA(c.kernel, "Combination")
  THEN [k \in 1..(IF IsA(c.kernel, "SeparateMixedMok") THEN c.L ELSE c.P) |-> k]
  ELSE [k \in 1..c.P |-> 1]

\* q_sqrt brought to one slice per output: [P, M, 1] or [P, 1, M, M].
batched_q_sqrts(q_sqrt) ==
  IF Rank(q_sqrt) = 2 THEN ExpandDims(Transpose(q_sqrt), 3) ELSE ExpandDims(q_sqrt, 2)

\* The batched body up to tf.map_fn: (Kmms, Kmns, Knns, fs, q_sqrts).
batched_elems(c, jitter) ==
  LET kernels == batched_kernels(c)
  IN [Kmm |-> Kmms_batched(c, jitter),
      Kmn |-> Kuf(c),
      Knn |-> Stack([k \in 1..Len(kernels) |->
                       IF c.full_cov THEN K(c, kernels[k]) ELSE K_diag(c, kernels[k])]),
      f |-> ExpandDims(Transpose(FTensor(c)), 3),
      q_sqrt |-> batched_q_sqrts(QTensor(c))]

\* tf.map_fn unstacks every element of the tuple along its first axis; the first
\* axes must agree.
map_fn_ok(es) ==
  /\ es.Kmn.shape[1] = es.Kmm.shape[1]
  /\ es.Knn.shape[1] = es.Kmm.shape[1]
  /\ es.f.shape[1] = es.Kmm.shape[1]
  /\ es.q_sqrt.shape[1] = es.Kmm.shape[1]

\* Every slice handed the first slice of fs.
Slice_first_f(es, p) ==
  [Kmm |-> Take(es.Kmm, 1, p), Kmn |-> Take(es.Kmn, 1, p), Knn |-> Take(es.Knn, 1, p),
   f |-> Take(es.f, 1, 1), q_sqrt |-> Take(es.q_sqrt, 1, p)]

\* The tuple t that tf.map_fn hands to the function for slice p.
Slice(es, p) ==
  [Kmm |-> Take(es.Kmm, 1, p), Kmn |-> Take(es.Kmn, 1, p), Knn |-> Take(es.Knn, 1, p),
   f |-> Take(es.f, 1, p), q_sqrt |-> Take(es.q_sqrt, 1, p)]

single_gp_conditional_ok(t, full_cov) ==
  base_conditional_ok(t.Kmn, t.Kmm, t.Knn, t.f, full_cov, t.q_sqrt)

single_gp_conditional(t, full_cov, white) ==
  base_conditional(t.Kmn, t.Kmm, t.Knn, t.f, full_cov, t.q_sqrt, white)

\* The mean left with the output axis in front.
batched_fmu_unrolled(rm) == Take(rm, Rank(rm), 1)

\* The batched body after tf.map_fn: rmu [P, N, 1]; rvar [P, 1, N, N] or [P, N, 1].
batched_fmu(rm) == rollaxis_left(Take(rm, Rank(rm), 1))
batched_fvar(rv, full_cov) ==
  IF full_cov THEN Take(rv, 2, 1) ELSE rollaxis_left(Take(rv, Rank(rv), 1))

\* The per-output variance returned without expand_independent_outputs.
batched_return_no_expand(rm, rv, full_cov, full_output_cov) ==
  [mean |-> batched_fmu(rm), var |-> batched_fvar(rv, full_cov)]

batched_return(rm, rv, full_cov, full_output_cov) ==
  [mean |-> batched_fmu(rm),
   var |-> expand_independent_outputs(batched_fvar(rv, full_cov), full_cov, full_output_cov)]

\* (Shared/SeparateIndependentMof, SeparateMixedMok): the interdomain helper.
conditional_interdomain(c, jitter) ==
  LET Kmm == Kmm_interdomain(c, jitter)
      Kmn == Kuf(c)
      Knn == KernelCall(c, c.full_cov, c.full_output_cov)
      f == FTensor(c)
      q_sqrt == QTensor(c)
      calls == One(Invocation("independent_interdomain_conditional", Kmn, Kmm, Knn))
      r == independent_interdomain_conditional(Kmn, Kmm, Knn, f, c.full_cov,
                                               c.full_output_cov, q_sqrt, c.white)
  IN IF ~independent_interdomain_conditional_ok(Kmn, Kmm, Knn, f, c.full_cov,
                                                c.full_output_cov, q_sqrt)
     THEN Failed("ShapeMismatchError", calls)
     ELSE Returned(r.mean, r.var, NoTensor, calls)


\* The branch of the fully-correlated body taken on full_cov alone.
correlated_flattens_on_full_cov(c) == c.full_cov

\* The fully-correlated body flattens and calls base_conditional exactly when the
\* two flags agree.
correlated_flattens(c) == c.full_cov = c.full_output_cov

\* f flattened to [M*L, 1] before it is handed on.
correlated_f_flattened(c) == Reshape(FTensor(c), <<Size(FShape(c)), 1>>)

\* The fully-correlated body hands f on as the caller gave it.
correlated_f(c) == FTensor(c)

\* (InducingPoints, Mok): fully correlated inducing variables.
conditional_correlated(c, jitter) ==
  LET Kuu4 == Kmm_correlated(c, jitter)
      Kuf4 == Kuf(c)
      Kff == KernelCall(c, c.full_cov, c.full_output_cov)
      M == Kuf4.shape[1]
      L == Kuf4.shape[2]
      N == Kuf4.shape[3]
      Kk == Kuf4.shape[4]
      Kmm == Reshape(Kuu4, <<M * L, M * L>>)
      f == correlated_f(c)
      q_sqrt == QTensor(c)
      flat == IF c.full_cov THEN <<N * Kk, N * Kk>> ELSE <<N * Kk>>
  IN IF correlated_flattens(c) /\ ~ReshapeOK(Kff, flat)
     THEN Failed("ShapeMismatchError", EmptyBag)
     ELSE IF correlated_flattens(c)
     THEN LET Kmn == Reshape(Kuf4, <<M * L, N * Kk>>)
              Knn == Reshape(Kff, flat)
              calls == One(Invocation("base_conditional", Kmn, Kmm, Knn))
              r == base_conditional(Kmn, Kmm, Knn, f, c.full_cov, q_sqrt, c.white)
              vshape == IF c.full_cov THEN <<N, Kk, N, Kk>> ELSE <<N, Kk>>
          IN IF ~base_conditional_ok(Kmn, Kmm, Knn, f, c.full_cov, q_sqrt)
             THEN Failed("ShapeMismatchError", calls)
             ELSE IF ~ReshapeOK(r.mean, <<N, Kk>>) \/ ~ReshapeOK(r.var, vshape)
             THEN Failed("ShapeMismatchError", calls)
             ELSE Returned(Reshape(r.mean, <<N, Kk>>), Reshape(r.var, vshape),
                           NoTensor, calls)
     ELSE LET Kmn == Reshape(Kuf4, <<M * L, N, Kk>>)
              calls == One(Invocation("fully_correlated_conditional", Kmn, Kmm, Kff))
              r == fully_correlated_conditional(Kmn, Kmm, Kff, f, c.full_cov,
                                                c.full_output_cov, q_sqrt, c.white)
          IN IF ~fully_correlated_conditional_ok(Kmn, Kmm, Kff, f, c.full_cov,
                                                 c.full_output_cov, q_sqrt)
             THEN Failed("ShapeMismatchError", calls)
             ELSE Returned(r.mean, r.var, NoTensor, calls)

\* The mixed body handing the caller's full_output_cov on to the batched body.
mixed_args_keep_flag(c) == c

\* The arguments with which the mixed body calls the batched body:
\* full_output_cov=False, everything else the caller's.
mixed_args(c) == [c EXCEPT !.full_output_cov = FALSE]

\* The mixed body's return: mix_latent_gp with kernel.W and the caller's flags.
mixed_return(c, gmu, gvar) == mix_latent_gp(c.W, gmu, gvar, c.full_cov, c.full_output_cov)

\* The batched body as one function of its arguments, the map evaluated in order.
conditional_batched(c, jitter) ==
  IF c.q = "None" THEN Failed("AttributeError", EmptyBag)
  ELSE LET es == batched_elems(c, jitter)
           n == es.Kmm.shape[1]
           t(p) == Slice(es, p)
           calls(k) == SumBags([p \in 1..k |->
                                  One(Invocation("base_conditional", t(p).Kmn, t(p).Kmm,
                                                 t(p).Knn))])
           bad == {p \in 1..n : ~single_gp_conditional_ok(t(p), c.full_cov)}
           rm == Stack([p \in 1..n |-> single_gp_conditional(t(p), c.full_cov, c.white).mean])
           rv == Stack([p \in 1..n |-> single_gp_conditional(t(p), c.full_cov, c.white).var])
           r == batched_return(rm, rv, c.full_cov, c.full_output_cov)
       IN IF ~map_fn_ok(es) THEN Failed("ShapeMismatchError", EmptyBag)
          ELSE IF bad # {}
          THEN Failed("ShapeMismatchError", calls(CHOOSE p \in bad : \A o \in bad : p <= o))
          ELSE Returned(r.mean, r.var, batched_fvar(rv, c.full_cov), calls(n))

----------------------------------------------------------------------------
(* The call as a state machine                                             *)

\* kernel.W of a SeparateMixedMok, [P, L]: the identity pattern, or a dense one.
WChoices(P, L) ==
  {[shape |-> <<P, L>>, val |-> [i \in Idx(<<P, L>>) |-> IF i[1] = i[2] THEN 1 ELSE 0]],
   [shape |-> <<P, L>>, val |-> [i \in Idx(<<P, L>>) |-> (i[1] + i[2]) % 3]]}

NoCall ==
  [feature |-> "", kernel |-> "", N |-> 0, M |-> 0, P |-> 0, L |-> 0,
   full_cov |-> FALSE, full_output_cov |-> FALSE, flay |-> "", q |-> "",
   white |-> FALSE, W |-> NoTensor]

NoResult == [mean |-> NoTensor, var |-> NoTensor]

Init ==
  /\ default_jitter = 1
  /\ pc = "idle"
  /\ call = NoCall
  /\ regime = ""
  /\ args = NoCall
  /\ caller = ""
  /\ elems = <<>>
  /\ done = {}
  /\ rmu = <<>>
  /\ rvar = <<>>
  /\ fvar = NoTensor
  /\ ret = NoResult
  /\ result = NoResult
  /\ error = ""
  /\ helpers = EmptyBag

\* conditional(Xnew, feature, kernel, f, full_cov, full_output_cov, q_sqrt, white)
Call ==
  /\ pc = "idle"
  /\ \E ft \in FeatureTypes, kt \in KernelTypes,
        N \in 1..MaxN, M \in 1..MaxM, P \in 1..MaxP, L \in 1..MaxL,
        fc \in BOOLEAN, foc \in BOOLEAN, wh \in BOOLEAN,
        fl \in {"cols", "flat"}, q \in {"None", "diag", "chol"} :
       /\ (IsA(kt, "SharedIndependentMok") \/ IsA(kt, "SeparateIndependentMok")) => L = P
       /\ kt = "Kernel" => (P = 1 /\ L = 1)
       /\ fl = "flat" => ft = "InducingPoints"
       /\ \E W \in (IF IsA(kt, "SeparateMixedMok") THEN WChoices(P, L) ELSE {NoTensor}) :
            call' = [feature |-> ft, kernel |-> kt, N |-> N, M |-> M, P |-> P, L |-> L,
                     full_cov |-> fc, full_output_cov |-> foc, flay |-> fl, q |-> q,
                     white |-> wh, W |-> W]
  /\ pc' = "dispatch"
  /\ UNCHANGED <<default_jitter, regime, args, caller, elems, done, rmu, rvar, fvar, ret,
                 result, error, helpers>>

\* The dispatcher selects the implementation by the two runtime types.
Dispatch ==
  /\ pc = "dispatch"
  /\ LET impls == Resolve(call.feature, call.kernel)
     IN IF Cardinality(impls) = 1
        THEN /\ regime' = CHOOSE i \in impls : TRUE
             /\ pc' = regime'
             /\ args' = call
             /\ error' = error
        ELSE /\ regime' = "none"
             /\ pc' = "error"
             /\ args' = args
             /\ error' = "DispatchError"
  /\ UNCHANGED <<default_jitter, call, caller, elems, done, rmu, rvar, fvar, ret, result,
                 helpers>>

\* A body that runs in one step ends the call with its result or its exception.
Finish(r) ==
  /\ helpers' = helpers (+) r.calls
  /\ IF r.ok
     THEN /\ pc' = "done"
          /\ result' = [mean |-> r.mean, var |-> r.var]
          /\ fvar' = r.fvar
          /\ error' = error
     ELSE /\ pc' = "error"
          /\ error' = r.err
          /\ result' = result
          /\ fvar' = fvar
  /\ UNCHANGED <<default_jitter, call, regime, args, caller, elems, done, rmu, rvar, ret>>

Raise(err) ==
  /\ pc' = "error"
  /\ error' = err

Shared == pc = "shared" /\ Finish(conditional_shared(args, default_jitter))

Interdomain == pc = "interdomain" /\ Finish(conditional_interdomain(args, default_jitter))

Correlated == pc = "correlated" /\ Finish(conditional_correlated(args, default_jitter))

\* The batched body up to the start of tf.map_fn.  q_sqrt.shape is read whether or
\* not a q_sqrt was given.
BatchedBegin ==
  /\ pc = "batched"
  /\ IF args.q = "None"
     THEN Raise("AttributeError") /\ UNCHANGED <<elems, rmu, rvar>>
     ELSE LET es == batched_elems(args, default_jitter)
          IN IF ~map_fn_ok(es)
             THEN Raise("ShapeMismatchError") /\ UNCHANGED <<elems, rmu, rvar>>
             ELSE /\ pc' = "map"
                  /\ error' = error
                  /\ elems' = es
                  /\ rmu' = [p \in 1..es.Kmm.shape[1] |-> NoTensor]
                  /\ rvar' = [p \in 1..es.Kmm.shape[1] |-> NoTensor]
  /\ done' = {}
  /\ UNCHANGED <<default_jitter, call, regime, args, caller, fvar, ret, result, helpers>>

\* tf.map_fn evaluates single_gp_conditional on one slice not yet evaluated.
MapStep ==
  /\ pc = "map"
  /\ \E p \in (1..Len(rmu)) \ done :
       LET t == Slice(elems, p)
       IN /\ helpers' = helpers (+) One(Invocation("base_conditional", t.Kmn, t.Kmm, t.Knn))
          /\ IF single_gp_conditional_ok(t, args.full_cov)
             THEN LET r == single_gp_conditional(t, args.full_cov, args.white)
                  IN /\ rmu' = [rmu EXCEPT ![p] = r.mean]
                     /\ rvar' = [rvar EXCEPT ![p] = r.var]
                     /\ done' = done \cup {p}
                     /\ pc' = pc
                     /\ error' = error
             ELSE Raise("ShapeMismatchError") /\ UNCHANGED <<rmu, rvar, done>>
  /\ UNCHANGED <<default_jitter, call, regime, args, caller, elems, fvar, ret, result>>

\* The batched body after tf.map_fn; it returns to the caller, or to the mixed body.
BatchedReturn ==
  /\ pc = "map"
  /\ done = 1..Len(rmu)
  /\ LET r == batched_return(Stack(rmu), Stack(rvar), args.full_cov, args.full_output_cov)
     IN /\ fvar' = batched_fvar(Stack(rvar), args.full_cov)
        /\ IF caller = "mixed"
           THEN pc' = "mix" /\ ret' = r /\ result' = result
           ELSE pc' = "done" /\ result' = r /\ ret' = ret
  /\ UNCHANGED <<default_jitter, call, regime, args, caller, elems, done, rmu, rvar, error,
                 helpers>>

\* The mixed body looks the batched body up and calls it.
Mixed ==
  /\ pc = "mixed"
  /\ IF registered_function("SeparateIndependentMof", "SeparateIndependentMok") = {"batched"}
     THEN /\ pc' = "batched"
          /\ caller' = "mixed"
          /\ args' = mixed_args(call)
          /\ error' = error
     ELSE /\ Raise("DispatchError")
          /\ UNCHANGED <<caller, args>>
  /\ UNCHANGED <<default_jitter, call, regime, elems, done, rmu, rvar, fvar, ret, result,
                 helpers>>

\* The mixed body mixes the latent result into the outputs.
Mix ==
  /\ pc = "mix"
  /\ IF mix_latent_gp_ok(call.W, ret.mean, ret.var, call.full_cov)
     THEN /\ pc' = "done"
          /\ result' = mixed_return(call, ret.mean, ret.var)
          /\ error' = error
     ELSE /\ Raise("ShapeMismatchError")
          /\ result' = result
  /\ UNCHANGED <<default_jitter, call, regime, args, caller, elems, done, rmu, rvar, fvar,
                 ret, helpers>>

\* The call is over; nothing of it is kept.
Return ==
  /\ pc \in {"done", "error"}
  /\ pc' = "idle"
  /\ call' = NoCall
  /\ regime' = ""
  /\ args' = NoCall
  /\ caller' = ""
  /\ elems' = <<>>
  /\ done' = {}
  /\ rmu' = <<>>
  /\ rvar' = <<>>
  /\ fvar' = NoTensor
  /\ ret' = NoResult
  /\ result' = NoResult
  /\ error' = ""
  /\ helpers' = EmptyBag
  /\ UNCHANGED default_jitter

Next ==
  \/ Call
  \/ Dispatch
  \/ Shared
  \/ BatchedBegin
  \/ MapStep
  \/ BatchedReturn
  \/ Interdomain
  \/ Correlated
  \/ Mixed
  \/ Mix
  \/ Return

Spec == Init /\ [][Next]_vars

----------------------------------------------------------------------------
(* Properties                                                              *)

Ended == pc \in {"done", "error"}

Dispatched == pc \notin {"idle", "dispatch"}

Regimes == {"shared", "batched", "interdomain", "correlated", "mixed"}

\* The regime declared for a type pair, "none" for a pair that is not declared.
DeclaredRegime(ft, kt) ==
  CASE ft = "SharedIndependentMof" /\ kt = "SharedIndependentMok" -> "shared"
    [] ft = "SeparateIndependentMof" /\ kt = "SeparateIndependentMok" -> "batched"
    [] ft = "SharedIndependentMof" /\ kt = "SeparateIndependentMok" -> "batched"
    [] ft = "SeparateIndependentMof" /\ kt = "SharedIndependentMok" -> "batched"
    [] ft \in {"SharedIndependentMof", "SeparateIndependentMof"} /\ kt = "SeparateMixedMok"
         -> "interdomain"
    [] ft = "InducingPoints"
       /\ kt \in {"Mok", "SharedIndependentMok", "SeparateIndependentMok", "SeparateMixedMok"}
         -> "correlated"
    [] ft \in {"MixedKernelSharedMof", "MixedKernelSeparateMof"} /\ kt = "SeparateMixedMok"
         -> "mixed"
    [] OTHER -> "none"

\* C1: once the dispatcher has run on a declared (feature type, kernel type) pair,
\* exactly one implementation was selectable and the selected regime is the one
\* declared for the pair; a mixed-aware feature with SeparateMixedMok is in the
\* mixing regime, never in the interdomain or the fully-correlated one.
C1_DispatchSelectsDeclared ==
  (Dispatched /\ DeclaredRegime(call.feature, call.kernel) # "none") =>
    /\ Cardinality(Resolve(call.feature, call.kernel)) = 1
    /\ regime = DeclaredRegime(call.feature, call.kernel)
    /\ error # "DispatchError"

C1_Witness ==
  /\ pc = "done"
  /\ regime = "mixed"
  /\ call.feature = "MixedKernelSharedMof"
  /\ call.kernel = "SeparateMixedMok"

\* The inputs in the layout the selected body documents: f [M, C] with q_sqrt
\* [M, C] or [C, M, M]; for the fully-correlated body f [M*L, 1] with q_sqrt
\* [M*L, 1] or [1, M*L, M*L].
DocumentedLayout ==
  IF regime = "correlated" THEN FShape(call) = <<call.M * call.L, 1>>
  ELSE call.flay = "cols"

\* Every term of every entry of a variance carries no q_sqrt operand.
NoPosteriorCorrection(v) ==
  \A i \in DOMAIN v.val : \A t \in BagToSet(v.val[i]) : t.q = <<>>

\* C2 (as claimed): in each of the five regimes a call with q_sqrt=None ends
\* without error, and no term of the returned variance has a q_sqrt operand.
C2_QSqrtNoneCompletes ==
  (Ended /\ regime \in Regimes /\ call.q = "None" /\ DocumentedLayout) =>
    (pc = "done" /\ NoPosteriorCorrection(result.var))

ShapesAsContracted ==
  /\ result.mean.shape = <<call.N, call.P>>
  /\ result.var.shape = VarShape(call.N, call.P, call.full_cov, call.full_output_cov)

\* C3 (as claimed): in every regime, with q_sqrt diagonal [M, P] or Cholesky
\* [P, M, M] (f in the matching column layout), the call returns a mean [N, P] and
\* a variance in the layout of the two flags.
C3_ShapeContractColumnLayout ==
  (Ended /\ regime \in Regimes /\ call.q \in {"diag", "chol"} /\ call.flay = "cols") =>
    (pc = "done" /\ ShapesAsContracted)

\* C3 (amended): in every regime, with f and q_sqrt given in the layout the
\* regime's body takes, the call returns a mean [N, P] and a variance [N, P],
\* [P, N, N], [N, P, P] or [N, P, N, P] as the two flags say.
C3_ShapeContract ==
  (Ended /\ regime \in Regimes /\ call.q \in {"diag", "chol"} /\ DocumentedLayout) =>
    (pc = "done" /\ ShapesAsContracted)

C3_Witness ==
  /\ pc = "done"
  /\ regime = "correlated"
  /\ call.full_cov /\ ~call.full_output_cov
  /\ call.flay = "flat" /\ call.q = "chol"
  /\ call.N = 2 /\ call.P = 2 /\ call.L = 2 /\ call.M = 2

\* The pairs for which nothing is registered: a feature that is none of the
\* registered feature classes, a kernel that is no multi-output kernel, or a
\* generic multi-output kernel with a feature other than InducingPoints.
Unregistered(ft, kt) ==
  \/ ft = "Mof"
  \/ kt = "Kernel"
  \/ (kt = "Mok" /\ ft # "InducingPoints")

\* C4: after the dispatcher has run on an unregistered pair the call has failed
\* with DispatchError: no regime was selected, no helper was invoked and nothing
\* was returned.
C4_UnregisteredRaisesDispatchError ==
  (Dispatched /\ Unregistered(call.feature, call.kernel)) =>
    /\ pc = "error"
    /\ error = "DispatchError"
    /\ regime = "none"
    /\ helpers = EmptyBag
    /\ result = NoResult

C4_Witness ==
  /\ pc = "error"
  /\ error = "DispatchError"
  /\ call.feature = "SharedIndependentMof"
  /\ call.kernel = "Mok"

\* C5: in the shared and the batched regime, a result under full_output_cov has
\* the variance layout of the flags, every entry whose two output indices differ
\* is the empty sum, and every entry on the output diagonal is the entry of the
\* per-output variance computed before the expansion.
C5_OffDiagonalZero ==
  (pc = "done" /\ regime \in {"shared", "batched"} /\ call.full_output_cov) =>
    /\ result.var.shape = VarShape(call.N, call.P, call.full_cov, TRUE)
    /\ fvar.shape = VarShape(call.N, call.P, call.full_cov, FALSE)
    /\ \A i \in DOMAIN result.var.val :
         IF call.full_cov
         THEN result.var.val[i] =
                (IF i[2] = i[4] THEN fvar.val[<<i[2], i[1], i[3]>>] ELSE EmptyBag)
         ELSE result.var.val[i] =
                (IF i[2] = i[3] THEN fvar.val[<<i[1], i[2]>>] ELSE EmptyBag)
    /\ \A i \in DOMAIN fvar.val : fvar.val[i] # EmptyBag

C5_Witness ==
  /\ pc = "done"
  /\ regime = "batched"
  /\ call.full_output_cov /\ call.full_cov
  /\ call.P = 2 /\ call.N = 2

IsIdentity(W) ==
  /\ W # NoTensor
  /\ W.shape[1] = W.shape[2]
  /\ \A i \in DOMAIN W.val : W.val[i] = (IF i[1] = i[2] THEN 1 ELSE 0)

\* The same call made on the batched regime directly: the plain feature class and
\* the independent kernel over the same per-latent kernels.
Direct(c) ==
  [c EXCEPT !.feature = IF c.feature = "MixedKernelSharedMof" THEN "SharedIndependentMof"
                        ELSE "SeparateIndependentMof",
            !.kernel = "SeparateIndependentMok"]

\* C6: a call in the mixing regime with W the identity (P = L) ends as the batched
\* regime ends on the same inputs and flags: the same mean and variance, or the
\* same exception.  The latent result came from the batched body run with the
\* caller's full_cov and full_output_cov=False, and the result returned is
\* mix_latent_gp of it under the caller's two flags.
C6_MixIdentityEqualsBatched ==
  /\ (regime = "mixed" /\ pc \in {"batched", "map", "mix"}) =>
       /\ caller = "mixed"
       /\ args = [call EXCEPT !.full_output_cov = FALSE]
  /\ (regime = "mixed" /\ pc = "mix") =>
       ret.var.shape = VarShape(call.N, call.L, call.full_cov, FALSE)
  /\ (regime = "mixed" /\ pc = "done") =>
       result = mix_latent_gp(call.W, ret.mean, ret.var, call.full_cov, call.full_output_cov)
  /\ (Ended /\ regime = "mixed" /\ IsIdentity(call.W)) =>
       LET d == conditional_batched(Direct(call), default_jitter)
       IN IF d.ok
          THEN pc = "done" /\ result.mean = d.mean /\ result.var = d.var
          ELSE pc = "error" /\ error = d.err

C6_Witness ==
  /\ pc = "done"
  /\ regime = "mixed"
  /\ IsIdentity(call.W)
  /\ call.full_cov /\ call.full_output_cov
  /\ call.P = 2 /\ call.N = 2

\* C7: at every point of every order of the batched map, a slot that was evaluated
\* holds base_conditional of slice p of Kmms, Kmns, Knns, fs and q_sqrts and of
\* nothing else, a slot not yet evaluated is untouched, and a call that ends in
\* the batched regime returns what the in-order evaluation returns.
C7_MapOrderIndependent ==
  /\ pc = "map" =>
       \A p \in 1..Len(rmu) :
         IF p \in done
         THEN LET r == base_conditional(Take(elems.Kmn, 1, p), Take(elems.Kmm, 1, p),
                                        Take(elems.Knn, 1, p), Take(elems.f, 1, p),
                                        args.full_cov, Take(elems.q_sqrt, 1, p), args.white)
              IN rmu[p] = r.mean /\ rvar[p] = r.var
         ELSE rmu[p] = NoTensor /\ rvar[p] = NoTensor
  /\ (pc = "done" /\ regime = "batched") =>
       LET d == conditional_batched(call, default_jitter)
       IN d.ok /\ result.mean = d.mean /\ result.var = d.var

C7_Witness ==
  /\ pc = "map"
  /\ Len(rmu) = 2
  /\ done = {2}

\* What the fully-correlated body hands to base_conditional when the flags agree.
FlattenedCall ==
  LET ML == call.M * call.L
      NK == call.N * call.P
  IN One([name |-> "base_conditional", Kmm |-> <<ML, ML>>, Kmn |-> <<ML, NK>>,
          Knn |-> IF call.full_cov THEN <<NK, NK>> ELSE <<NK>>,
          source |-> {"Kuu"}, jitter |-> {default_jitter}])

\* What the fully-correlated body hands to the named helper when the flags disagree.
DelegatedCall(helper) ==
  LET ML == call.M * call.L
  IN One([name |-> helper, Kmm |-> <<ML, ML>>, Kmn |-> <<ML, call.N, call.P>>,
          Knn |-> VarShape(call.N, call.P, call.full_cov, call.full_output_cov),
          source |-> {"Kuu"}, jitter |-> {default_jitter}])

FlattenedPath ==
  /\ helpers = FlattenedCall
  /\ pc = "done" =>
       /\ result.mean.shape = <<call.N, call.P>>
       /\ result.var.shape = (IF call.full_cov THEN <<call.N, call.P, call.N, call.P>>
                              ELSE <<call.N, call.P>>)

\* C8 (as claimed): in the fully-correlated regime, equal flags mean one
\* base_conditional on the flattened matrices and an un-flattened result;
\* unequal flags mean one call of the interdomain helper of regime 4.5 on Kmn
\* [M*L, N, K] and no base_conditional.
C8_DisagreeingFlagsUseInterdomainHelper ==
  (Ended /\ regime = "correlated") =>
    IF call.full_cov = call.full_output_cov
    THEN FlattenedPath
    ELSE helpers = DelegatedCall("independent_interdomain_conditional")

\* C8 (amended): as claimed, except that the helper called when the flags
\* disagree is fully_correlated_conditional, with Kmm [M*L, M*L] and Kmn
\* [M*L, N, K]; the interdomain helper of regime 4.5 is not called.
C8_PathChosenByFlags ==
  (Ended /\ regime = "correlated") =>
    IF call.full_cov = call.full_output_cov
    THEN FlattenedPath
    ELSE helpers = DelegatedCall("fully_correlated_conditional")

C8_Witness ==
  /\ pc = "done"
  /\ regime = "correlated"
  /\ call.full_cov /\ ~call.full_output_cov
  /\ call.M = 2 /\ call.L = 2

\* C9: every Kmm handed to a conditional helper, in every regime and on the path
\* of the mixing regime through the batched body, was built by Kuu with the
\* default jitter, and no step changes the default jitter.
C9_KmmCarriesDefaultJitter ==
  /\ [](\A h \in BagToSet(helpers) : h.source = {"Kuu"} /\ h.jitter = {default_jitter})
  /\ [][default_jitter' = default_jitter]_vars

C9_Witness ==
  /\ pc = "mix"
  /\ regime = "mixed"
  /\ \E h \in BagToSet(helpers) : helpers[h] = 2

\* C10: in the fully-correlated regime with equal flags the call returns only for
\* f [M*L, 1] (q_sqrt, if given, [M*L, 1] or [1, M*L, M*L]), and then with a mean
\* [N, K]; f in the [M, L] layout with L > 1 ends in a shape error.
C10_FlattenedPathNeedsFlatF ==
  (Ended /\ regime = "correlated" /\ call.full_cov = call.full_output_cov) =>
    /\ pc = "done" =>
         /\ FShape(call) = <<call.M * call.L, 1>>
         /\ call.q # "None" =>
              QShape(call) \in {<<call.M * call.L, 1>>,
                                <<1, call.M * call.L, call.M * call.L>>}
         /\ result.mean.shape = <<call.N, call.P>>
    /\ (call.flay = "cols" /\ call.L > 1) =>
         (pc = "error" /\ error = "ShapeMismatchError")

C10_Witness ==
  /\ pc = "error"
  /\ error = "ShapeMismatchError"
  /\ regime = "correlated"
  /\ call.full_cov /\ call.full_output_cov
  /\ call.flay = "cols" /\ call.L = 2

====
